---- MODULE Spec2Model ----
(***************************************************************************)
(* Model of avro_diff (src/src/index.js): the key-based merge-join diff    *)
(* (keyDiffHelper) and the streaming venn diff (printVennDiff, vennParser).*)
(*                                                                         *)
(* JavaScript strings are sequences of UTF-16 code units, so that the      *)
(* relational operators < and > on strings are the lexicographic order.    *)
(* A row is a sequence of <<field, value>> pairs in insertion order.       *)
(***************************************************************************)
EXTENDS Integers, Sequences, FiniteSets, TLC

VARIABLES
  \* ---- keyDiffHelper(arr1, arr2, key) ----
  arr1,      \* the caller's array of old rows (sorted in place by the call)
  arr2,      \* the caller's array of new rows (sorted in place by the call)
  key,       \* the key-field list
  in1,       \* arr1 as it was when keyDiffHelper was called
  in2,       \* arr2 as it was when keyDiffHelper was called
  output,    \* {removed, added, changed, unchanged}
  i,         \* cursor into arr1 (0-based, as in the code)
  j,         \* cursor into arr2
  pc,        \* "sort", "loop", "done"; "off" when no key diff is running
  \* ---- printVennDiff(file1, file2) ----
  file1,     \* rows the old file's decoder will emit
  file2,     \* rows the new file's decoder will emit
  p1,        \* number of 'data' events of the old decoder handled so far
  p2,        \* number of 'data' events of the new decoder handled so far
  end1,      \* the old decoder's 'end' event has been handled
  end2,      \* the new decoder's 'end' event has been handled
  venn,      \* {removed, added, intersection}
  printQueued, \* the old file's promise is resolved: the print callback is queued
  printed,   \* the print callback has run
  inOrder,   \* history: no new row was handled while an old row was pending
  lateRows,  \* history: number of rows added to venn after the print
  newEarly,  \* history: the values of new rows handled while an old row of
             \* the same value was still to come
  \* ---- lexCompare(la, lb), lexCompare(lb, lc), ... called on their own ----
  la, lb, lc,  \* three composite keys (or null)
  lres,      \* the results of the calls
  lpc,       \* "call", "done"; "off" when lexCompare is not called on its own
  \* ---- constructKey(crow, cfields) called on its own ----
  crow,      \* the row passed (or null)
  cfields,   \* the field list passed
  crow0,     \* crow as it was when constructKey was called
  cfields0,  \* cfields as it was when constructKey was called
  cres,      \* the value returned
  cpc,       \* "call", "done"; "off" when constructKey is not called on its own
  \* ---- two invocations, 1 and 2, of printVennDiff or of keyDiff ----
  cmode,     \* "venn", "key"; "off" when no two invocations are modelled
  cfiles,    \* invocation -> [old, new]: the rows of its two files
  clog,      \* invocation -> history: the files (1 old, 2 new) whose 'data'
             \* events its vennParser handled, in the order handled
  cvenn,     \* invocation -> its venn (the let of printVennDiff)
  carr,      \* invocation -> [a1, a2]: the arrays extractRows fills for it
  cout,      \* invocation -> the value its keyDiffHelper returned
  cdone      \* invocation -> its keyDiffHelper has returned

keyVars  == <<arr1, arr2, key, in1, in2, output, i, j, pc>>
vennVars == <<file1, file2, p1, p2, end1, end2, venn, printQueued, printed, inOrder, lateRows,
             newEarly>>
lexVars  == <<la, lb, lc, lres, lpc>>
ctorVars == <<crow, cfields, crow0, cfields0, cres, cpc>>
concVars == <<cmode, cfiles, clog, cvenn, carr, cout, cdone>>
vars     == <<arr1, arr2, key, in1, in2, output, i, j, pc,
              file1, file2, p1, p2, end1, end2, venn, printQueued, printed, inOrder, lateRows,
              newEarly, la, lb, lc, lres, lpc, crow, cfields, crow0, cfields0, cres, cpc,
              cmode, cfiles, clog, cvenn, carr, cout, cdone>>

(***************************************************************************)
(* Bounds of the model.                                                    *)
(***************************************************************************)
MaxLen == 2
MaxRows == 2
MaxKeyLen == 2
MaxFields == 2
MaxConcRows == 1

(***************************************************************************)
(* JavaScript values, strings and rows.                                    *)
(***************************************************************************)
Num(n) == [t |-> "num", n |-> n, s |-> <<>>]
Str(s) == [t |-> "str", n |-> 0, s |-> s]
Undef  == [t |-> "undef", n |-> 0, s |-> <<>>]

\* a < b on JavaScript strings
RECURSIVE StrLess(_, _)
StrLess(a, b) ==
  IF b = <<>> THEN FALSE
  ELSE IF a = <<>> THEN TRUE
  ELSE IF Head(a) < Head(b) THEN TRUE
  ELSE IF Head(a) > Head(b) THEN FALSE
  ELSE StrLess(Tail(a), Tail(b))

\* the decimal digits of a natural number
RECURSIVE Digits(_)
Digits(n) == IF n < 10 THEN <<48 + n>> ELSE Digits(n \div 10) \o <<48 + (n % 10)>>

\* "undefined"
UndefinedStr == <<117, 110, 100, 101, 102, 105, 110, 101, 100>>

\* String(v) with "null" for a missing field
String_NullForMissing(v) ==
  CASE v.t = "num" -> Digits(v.n)
    [] v.t = "str" -> v.s
    [] OTHER       -> <<110, 117, 108, 108>>

\* String(v)
String(v) ==
  CASE v.t = "num" -> Digits(v.n)
    [] v.t = "str" -> v.s
    [] OTHER       -> UndefinedStr

\* the code units of a field name
FieldChars(f) ==
  CASE f = "id" -> <<105, 100>>
    [] f = "v"  -> <<118>>
    [] OTHER    -> <<63>>

\* a row that is null (or undefined)
NullRow == << <<"", Undef>> >>

FieldsOf(row) == {row[k][1] : k \in 1..Len(row)}

\* row[field]
Get(row, field) ==
  IF field \in FieldsOf(row)
  THEN LET k == CHOOSE k \in 1..Len(row) : row[k][1] = field IN row[k][2]
  ELSE Undef

\* the rows the decoders deliver in this model
RowA == << <<"id", Num(1)>>, <<"v", Num(1)>> >>
RowB == << <<"v", Num(1)>>, <<"id", Num(1)>> >>
RowC == << <<"id", Num(2)>>, <<"v", Num(2)>> >>
RowD == << <<"id", Num(10)>>, <<"v", Num(1)>> >>
RowE == << <<"id", Str(<<49>>)>> >>

KeyRows == {RowA, RowB, RowC, RowD, RowE}
VennRows == {RowA, RowB, RowC}
KeyLists == {<<>>, <<"id">>, <<"id", "v">>}

RECURSIVE SeqsUpTo(_, _)
SeqsUpTo(S, n) ==
  IF n = 0 THEN {<<>>}
  ELSE LET shorter == SeqsUpTo(S, n - 1)
       IN shorter \cup {Append(s, x) : s \in {t \in shorter : Len(t) = n - 1}, x \in S}

(***************************************************************************)
(* constructKey and lexCompare.                                            *)
(***************************************************************************)
Null == [null |-> TRUE, k |-> <<>>]
KeyOf(k) == [null |-> FALSE, k |-> k]

constructKey(row, fields) ==
  IF row = NullRow THEN Null
  ELSE KeyOf([n \in 1..Len(fields) |-> String(Get(row, fields[n]))])

\* the loop of lexCompare, from index n on
RECURSIVE lexLoop(_, _, _, _)
lexLoop(a, b, n, len) ==
  IF n > len THEN Len(a) - Len(b)
  ELSE IF StrLess(a[n], b[n]) THEN -1
  ELSE IF StrLess(b[n], a[n]) THEN 1
  ELSE lexLoop(a, b, n + 1, len)

Min(a, b) == IF a < b THEN a ELSE b

\* lexCompare with the loop bound off: only the first key element is compared
lexCompare_FirstOnly(a, b) ==
  IF a.null /\ b.null THEN 0
  ELSE IF a.null THEN 1
  ELSE IF b.null THEN -1
  ELSE lexLoop(a.k, b.k, 1, Min(1, Min(Len(a.k), Len(b.k))))

\* lexCompare with null ahead of every key, as its doc comment words it
lexCompare_NullFirst(a, b) ==
  IF a.null /\ b.null THEN 0
  ELSE IF a.null THEN -1
  ELSE IF b.null THEN 1
  ELSE lexLoop(a.k, b.k, 1, Min(Len(a.k), Len(b.k)))

lexCompare(a, b) ==
  IF a.null /\ b.null THEN 0
  ELSE IF a.null THEN 1
  ELSE IF b.null THEN -1
  ELSE lexLoop(a.k, b.k, 1, Min(Len(a.k), Len(b.k)))

\* the comparison function of keyDiffHelper
compare(a, b, fields) == lexCompare(constructKey(a, fields), constructKey(b, fields))

(***************************************************************************)
(* Array.prototype.sort(compare): a stable sort (ECMAScript 2019).         *)
(***************************************************************************)
\* InsertSorted with the comparison turned round (a descending sort)
RECURSIVE InsertSorted_Descending(_, _, _)
InsertSorted_Descending(x, s, fields) ==
  IF s = <<>> THEN <<x>>
  ELSE IF compare(s[Len(s)], x, fields) >= 0 THEN Append(s, x)
  ELSE Append(InsertSorted_Descending(x, SubSeq(s, 1, Len(s) - 1), fields), s[Len(s)])

RECURSIVE InsertSorted(_, _, _)
InsertSorted(x, s, fields) ==
  IF s = <<>> THEN <<x>>
  ELSE IF compare(s[Len(s)], x, fields) <= 0 THEN Append(s, x)
  ELSE Append(InsertSorted(x, SubSeq(s, 1, Len(s) - 1), fields), s[Len(s)])

\* sort left out: the array stays as it was given
sort_None(s, fields) == s

RECURSIVE sort(_, _)
sort(s, fields) ==
  IF s = <<>> THEN <<>>
  ELSE InsertSorted(s[Len(s)], sort(SubSeq(s, 1, Len(s) - 1), fields), fields)

(***************************************************************************)
(* detailedDiff (deep-object-diff) on flat rows, isEmpty and diffIsEmpty.  *)
(***************************************************************************)
detailedDiff(l, r) ==
  [added   |-> [f \in FieldsOf(r) \ FieldsOf(l) |-> Get(r, f)],
   deleted |-> [f \in FieldsOf(l) \ FieldsOf(r) |-> Undef],
   updated |-> [f \in {g \in FieldsOf(l) \cap FieldsOf(r) : Get(l, g) # Get(r, g)} |-> Get(r, f)]]

isEmpty(obj) == DOMAIN obj = {}

\* diffIsEmpty without the test of the three mappings
diffIsEmpty_TopOnly(diffObj) == isEmpty(diffObj)

diffIsEmpty(diffObj) ==
  isEmpty(diffObj) \/ (isEmpty(diffObj.added) /\ isEmpty(diffObj.deleted) /\ isEmpty(diffObj.updated))

(***************************************************************************)
(* keyDiffHelper.                                                          *)
(***************************************************************************)
EmptyOutput == [removed |-> <<>>, added |-> <<>>, changed |-> <<>>, unchanged |-> <<>>]
EmptyVenn == [removed |-> <<>>, added |-> <<>>, intersection |-> <<>>]

\* arr[n] with a 0-based index; undefined outside the array
At(arr, n) == IF n + 1 \in DOMAIN arr THEN arr[n + 1] ELSE NullRow

\* key1, key2 and order of the current loop iteration
key1 == IF i = Len(arr1) THEN Null ELSE constructKey(At(arr1, i), key)
key2 == IF j = Len(arr2) THEN Null ELSE constructKey(At(arr2, j), key)
order == lexCompare(key1, key2)

LoopCond == i < Len(arr1) \/ j < Len(arr2)

\* arr1.sort(compare); arr2.sort(compare)
SortArrays ==
  /\ pc = "sort"
  /\ arr1' = sort(arr1, key)
  /\ arr2' = sort(arr2, key)
  /\ pc' = "loop"
  /\ UNCHANGED <<key, in1, in2, output, i, j>>
  /\ UNCHANGED <<vennVars, lexVars, ctorVars, concVars>>

\* StepRemoved with the id taken from the other side (key2 for key1)
StepRemoved_WrongId ==
  /\ pc = "loop" /\ LoopCond
  /\ order < 0
  /\ output' = [output EXCEPT !.removed = Append(@, [id |-> key2, data |-> At(arr1, i)])]
  /\ i' = i + 1
  /\ UNCHANGED <<arr1, arr2, key, in1, in2, j, pc>>
  /\ UNCHANGED <<vennVars, lexVars, ctorVars, concVars>>

\* order < 0: arr1[i] goes to removed
StepRemoved ==
  /\ pc = "loop" /\ LoopCond
  /\ order < 0
  /\ output' = [output EXCEPT !.removed = Append(@, [id |-> key1, data |-> At(arr1, i)])]
  /\ i' = i + 1
  /\ UNCHANGED <<arr1, arr2, key, in1, in2, j, pc>>
  /\ UNCHANGED <<vennVars, lexVars, ctorVars, concVars>>

\* StepAdded without j++
StepAdded_NoAdvance ==
  /\ pc = "loop" /\ LoopCond
  /\ ~(order < 0) /\ order > 0
  /\ output' = [output EXCEPT !.added = Append(@, [id |-> key2, data |-> At(arr2, j)])]
  /\ UNCHANGED <<arr1, arr2, key, in1, in2, i, j, pc>>
  /\ UNCHANGED <<vennVars, lexVars, ctorVars, concVars>>

\* order > 0: arr2[j] goes to added
StepAdded ==
  /\ pc = "loop" /\ LoopCond
  /\ ~(order < 0) /\ order > 0
  /\ output' = [output EXCEPT !.added = Append(@, [id |-> key2, data |-> At(arr2, j)])]
  /\ j' = j + 1
  /\ UNCHANGED <<arr1, arr2, key, in1, in2, i, pc>>
  /\ UNCHANGED <<vennVars, lexVars, ctorVars, concVars>>

\* StepChanged without i++
StepChanged_NoAdvanceI ==
  /\ pc = "loop" /\ LoopCond
  /\ ~(order < 0) /\ ~(order > 0)
  /\ LET diffObj == detailedDiff(At(arr1, i), At(arr2, j))
     IN /\ ~diffIsEmpty(diffObj)
        /\ output' = [output EXCEPT !.changed = Append(@, [id |-> key2, data |-> diffObj])]
  /\ j' = j + 1
  /\ UNCHANGED <<arr1, arr2, key, in1, in2, i, pc>>
  /\ UNCHANGED <<vennVars, lexVars, ctorVars, concVars>>

\* order = 0 and the rows differ: the diff goes to changed
StepChanged ==
  /\ pc = "loop" /\ LoopCond
  /\ ~(order < 0) /\ ~(order > 0)
  /\ LET diffObj == detailedDiff(At(arr1, i), At(arr2, j))
     IN /\ ~diffIsEmpty(diffObj)
        /\ output' = [output EXCEPT !.changed = Append(@, [id |-> key2, data |-> diffObj])]
  /\ i' = i + 1
  /\ j' = j + 1
  /\ UNCHANGED <<arr1, arr2, key, in1, in2, pc>>
  /\ UNCHANGED <<vennVars, lexVars, ctorVars, concVars>>

\* StepUnchanged that records the old row (arr1[i] for arr2[j])
StepUnchanged_OldData ==
  /\ pc = "loop" /\ LoopCond
  /\ ~(order < 0) /\ ~(order > 0)
  /\ diffIsEmpty(detailedDiff(At(arr1, i), At(arr2, j)))
  /\ output' = [output EXCEPT !.unchanged = Append(@, [id |-> key2, data |-> At(arr1, i)])]
  /\ i' = i + 1
  /\ j' = j + 1
  /\ UNCHANGED <<arr1, arr2, key, in1, in2, pc>>
  /\ UNCHANGED <<vennVars, lexVars, ctorVars, concVars>>

\* order = 0 and the rows are equal: arr2[j] goes to unchanged
StepUnchanged ==
  /\ pc = "loop" /\ LoopCond
  /\ ~(order < 0) /\ ~(order > 0)
  /\ diffIsEmpty(detailedDiff(At(arr1, i), At(arr2, j)))
  /\ output' = [output EXCEPT !.unchanged = Append(@, [id |-> key2, data |-> At(arr2, j)])]
  /\ i' = i + 1
  /\ j' = j + 1
  /\ UNCHANGED <<arr1, arr2, key, in1, in2, pc>>
  /\ UNCHANGED <<vennVars, lexVars, ctorVars, concVars>>

\* the loop condition fails: return output
Return ==
  /\ pc = "loop" /\ ~LoopCond
  /\ pc' = "done"
  /\ UNCHANGED <<arr1, arr2, key, in1, in2, output, i, j>>
  /\ UNCHANGED <<vennVars, lexVars, ctorVars, concVars>>

ConcIdle ==
  /\ cmode = "off"
  /\ cfiles = [k \in {1, 2} |-> [old |-> <<>>, new |-> <<>>]]
  /\ clog = [k \in {1, 2} |-> <<>>]
  /\ cvenn = [k \in {1, 2} |-> EmptyVenn]
  /\ carr = [k \in {1, 2} |-> [a1 |-> <<>>, a2 |-> <<>>]]
  /\ cout = [k \in {1, 2} |-> EmptyOutput]
  /\ cdone = [k \in {1, 2} |-> FALSE]

LexIdle ==
  /\ la = Null /\ lb = Null /\ lc = Null
  /\ lres = [ab |-> 0, ba |-> 0, bc |-> 0, ac |-> 0]
  /\ lpc = "off"

CtorIdle ==
  /\ crow = NullRow /\ cfields = <<>>
  /\ crow0 = NullRow /\ cfields0 = <<>>
  /\ cres = Null
  /\ cpc = "off"

VennIdle ==
  /\ file1 = <<>> /\ file2 = <<>>
  /\ p1 = 0 /\ p2 = 0
  /\ end1 = FALSE /\ end2 = FALSE
  /\ venn = EmptyVenn
  /\ printQueued = FALSE /\ printed = FALSE
  /\ inOrder = TRUE /\ lateRows = 0 /\ newEarly = {}

\* keyDiffHelper is called with any two arrays and any key-field list
KeyInit ==
  /\ arr1 \in SeqsUpTo(KeyRows, MaxLen)
  /\ arr2 \in SeqsUpTo(KeyRows, MaxLen)
  /\ key \in KeyLists
  /\ in1 = arr1
  /\ in2 = arr2
  /\ output = EmptyOutput
  /\ i = 0
  /\ j = 0
  /\ pc = "sort"
  /\ VennIdle /\ LexIdle /\ CtorIdle /\ ConcIdle

KeyNext == SortArrays \/ StepRemoved \/ StepAdded \/ StepChanged \/ StepUnchanged \/ Return

KeySpec == KeyInit /\ [][KeyNext]_vars

(***************************************************************************)
(* Properties of keyDiffHelper.                                            *)
(***************************************************************************)
Ids(entries) == {entries[n].id : n \in 1..Len(entries)}
KeysOf(rows) == {constructKey(rows[n], key) : n \in 1..Len(rows)}
NoDuplicateKey(rows) ==
  \A m, n \in 1..Len(rows) : m # n => constructKey(rows[m], key) # constructKey(rows[n], key)
AllIds == [n \in 1..Len(output.removed) |-> output.removed[n].id]
          \o [n \in 1..Len(output.added) |-> output.added[n].id]
          \o [n \in 1..Len(output.changed) |-> output.changed[n].id]
          \o [n \in 1..Len(output.unchanged) |-> output.unchanged[n].id]

\* C1: key-diff completeness. For a non-empty key-field list, when keyDiffHelper
\* has returned, the ids of removed, changed and unchanged together are exactly
\* the composite keys of the old rows, and the ids of added, changed and
\* unchanged together are exactly the composite keys of the new rows.
C1_Completeness ==
  (pc = "done" /\ Len(key) > 0) =>
    /\ Ids(output.removed) \cup Ids(output.changed) \cup Ids(output.unchanged) = KeysOf(in1)
    /\ Ids(output.added) \cup Ids(output.changed) \cup Ids(output.unchanged) = KeysOf(in2)

\* C1 witness: a finished diff of old rows with a duplicate key, one of them
\* paired and one removed, against a new row set that also has an added row.
C1_Witness ==
  /\ pc = "done" /\ Len(key) > 0
  /\ Len(in1) = 2 /\ ~NoDuplicateKey(in1)
  /\ Len(output.removed) = 1
  /\ Len(output.changed) + Len(output.unchanged) = 1
  /\ Len(output.added) = 1

\* C2: disjoint key sets. When old and new share no composite key, a finished
\* diff has changed = [] and unchanged = [], every old row in removed and every
\* new row in added, with |removed| = |old| and |added| = |new|; so empty old,
\* empty new and both empty give the corresponding empty outputs.
C2_DisjointKeys ==
  (pc = "done" /\ KeysOf(in1) \cap KeysOf(in2) = {}) =>
    /\ output.changed = <<>>
    /\ output.unchanged = <<>>
    /\ Len(output.removed) = Len(in1)
    /\ Len(output.added) = Len(in2)
    /\ \A n \in 1..Len(in1) : \E m \in 1..Len(output.removed) :
          output.removed[m] = [id |-> constructKey(in1[n], key), data |-> in1[n]]
    /\ \A n \in 1..Len(in2) : \E m \in 1..Len(output.added) :
          output.added[m] = [id |-> constructKey(in2[n], key), data |-> in2[n]]
    /\ (in1 = <<>> /\ in2 = <<>>) => output = EmptyOutput

\* C2 witness: a finished diff of two non-empty inputs with disjoint key sets
\* whose keys interleave (an old key lies between two new keys).
C2_Witness ==
  /\ pc = "done"
  /\ KeysOf(in1) \cap KeysOf(in2) = {}
  /\ Len(in1) = 1 /\ Len(in2) = 2
  /\ Len(output.added) = 2 /\ Len(output.removed) = 1
  /\ lexCompare(output.added[1].id, output.removed[1].id) < 0
  /\ lexCompare(output.removed[1].id, output.added[2].id) < 0

\* C3: identical datasets. For a non-empty key-field list, diffing a row
\* sequence (duplicate keys allowed) against an equal copy gives added =
\* removed = changed = [] and as many unchanged entries as there are rows.
C3_Identical ==
  (pc = "done" /\ Len(key) > 0 /\ in1 = in2) =>
    /\ output.added = <<>>
    /\ output.removed = <<>>
    /\ output.changed = <<>>
    /\ Len(output.unchanged) = Len(in1)

\* C3 witness: a finished self-diff of two rows that share a key and differ
\* in their fields (duplicate key case), both reported unchanged.
C3_Witness ==
  /\ pc = "done" /\ Len(key) > 0 /\ in1 = in2
  /\ Len(in1) = 2 /\ in1[1] # in1[2] /\ ~NoDuplicateKey(in1)
  /\ detailedDiff(in1[1], in1[2]) # detailedDiff(in1[1], in1[1])
  /\ Len(output.unchanged) = 2

\* C4: keys are unique in the result. When no two old rows share a composite
\* key and no two new rows share one, no composite key is the id of more than
\* one entry of added, removed, changed and unchanged taken together.
C4_UniqueIds ==
  (pc = "done" /\ NoDuplicateKey(in1) /\ NoDuplicateKey(in2)) =>
    \A m, n \in 1..Len(AllIds) : m # n => AllIds[m] # AllIds[n]

\* C4 witness: a finished diff of duplicate-free inputs of two rows each, with
\* a paired key and keys on one side only.
C4_Witness ==
  /\ pc = "done" /\ NoDuplicateKey(in1) /\ NoDuplicateKey(in2)
  /\ Len(in1) = 2 /\ Len(in2) = 2
  /\ Len(output.changed) = 1 /\ Len(output.removed) = 1 /\ Len(output.added) = 1

\* C9: an empty key-field list is rejected: keyDiffHelper called with key = []
\* never walks the rows and never returns a diff result.
C9_EmptyKeyRejected ==
  (key = <<>>) => (pc = "sort" /\ output = EmptyOutput)

\* C10: key diff leaves its inputs alone: when keyDiffHelper has returned,
\* arr1 and arr2 hold the same rows in the same order as when it was called.
C10_InputsUnchanged ==
  (pc = "done") => (arr1 = in1 /\ arr2 = in2)

(***************************************************************************)
(* stableStringify (json-stable-stringify) on flat rows: JSON with the     *)
(* fields in ascending order of their names.                               *)
(***************************************************************************)
RECURSIVE InsertPair(_, _)
InsertPair(x, s) ==
  IF s = <<>> THEN <<x>>
  ELSE IF StrLess(FieldChars(x[1]), FieldChars(s[Len(s)][1])) 
       THEN Append(InsertPair(x, SubSeq(s, 1, Len(s) - 1)), s[Len(s)])
       ELSE Append(s, x)

RECURSIVE SortPairs(_)
SortPairs(row) ==
  IF row = <<>> THEN <<>>
  ELSE InsertPair(row[Len(row)], SortPairs(SubSeq(row, 1, Len(row) - 1)))

\* JSON.stringify of a number or a string
JsonValue(v) == IF v.t = "num" THEN Digits(v.n) ELSE <<34>> \o v.s \o <<34>>

\* "name":value of each pair, joined by commas
RECURSIVE JoinPairs(_)
JoinPairs(pairs) ==
  IF pairs = <<>> THEN <<>>
  ELSE LET one == <<34>> \o FieldChars(pairs[1][1]) \o <<34, 58>> \o JsonValue(pairs[1][2])
       IN IF Len(pairs) = 1 THEN one ELSE one \o <<44>> \o JoinPairs(Tail(pairs))

stableStringify(row) == <<123>> \o JoinPairs(SortPairs(row)) \o <<125>>

(***************************************************************************)
(* vennParser. A map is a function from strings to counts.                 *)
(***************************************************************************)
\* Increment that stores 1 every time
Increment_AlwaysOne(m, s) == (s :> 1) @@ m

\* m[s] = m[s] == null ? 1 : m[s] + 1
Increment(m, s) == IF s \in DOMAIN m THEN [m EXCEPT ![s] = @ + 1] ELSE (s :> 1) @@ m

\* delete m[s]
Delete(m, s) == [k \in DOMAIN m \ {s} |-> m[k]]

\* the test off by one: if (m[s] > 1)
Truthy_MoreThanOne(m, s) == s \in DOMAIN m /\ m[s] > 1

\* if (m[s])
Truthy(m, s) == s \in DOMAIN m /\ m[s] # 0

\* vennParser that leaves removed as it is when a new row matches
vennParser_NoDecrement(num, v, row) ==
  LET str == stableStringify(row)
  IN IF num = 1
     THEN [v EXCEPT !.removed = Increment(v.removed, str)]
     ELSE IF Truthy(v.removed, str)
          THEN [v EXCEPT !.intersection = Increment(v.intersection, str)]
          ELSE [v EXCEPT !.added = Increment(v.added, str)]

\* vennParser that decrements removed without the delete of a count of 1
vennParser_NoDelete(num, v, row) ==
  LET str == stableStringify(row)
  IN IF num = 1
     THEN [v EXCEPT !.removed = Increment(v.removed, str)]
     ELSE IF Truthy(v.removed, str)
          THEN [v EXCEPT !.removed = [v.removed EXCEPT ![str] = @ - 1],
                         !.intersection = Increment(v.intersection, str)]
          ELSE [v EXCEPT !.added = Increment(v.added, str)]

\* venn after vennParser(num)(venn)(row)
vennParser(num, v, row) ==
  LET str == stableStringify(row)
  IN IF num = 1
     THEN [v EXCEPT !.removed = Increment(v.removed, str)]
     ELSE IF Truthy(v.removed, str)
          THEN [v EXCEPT !.removed = IF v.removed[str] = 1
                                     THEN Delete(v.removed, str)
                                     ELSE [v.removed EXCEPT ![str] = @ - 1],
                         !.intersection = Increment(v.intersection, str)]
          ELSE [v EXCEPT !.added = Increment(v.added, str)]

(***************************************************************************)
(* printVennDiff: both readAvroFile calls are made before any event is     *)
(* handled (the argument of the first .then is evaluated at once), so the  *)
(* 'data' and 'end' listeners of both decoders are registered together;    *)
(* .then(<a promise>) passes the old file's resolution through to the      *)
(* print callback.                                                         *)
(***************************************************************************)
\* Data1 with the old file read through vennParser(2)
Data1_WrongNum ==
  /\ pc = "off"
  /\ p1 < Len(file1)
  /\ venn' = vennParser(2, venn, file1[p1 + 1])
  /\ p1' = p1 + 1
  /\ lateRows' = IF printed THEN lateRows + 1 ELSE lateRows
  /\ UNCHANGED <<file1, file2, p2, end1, end2, printQueued, printed, inOrder, newEarly>>
  /\ UNCHANGED <<keyVars, lexVars, ctorVars, concVars>>

\* 'data' of the old file's decoder: vennParser(1)(venn)(row)
Data1 ==
  /\ pc = "off"
  /\ p1 < Len(file1)
  /\ venn' = vennParser(1, venn, file1[p1 + 1])
  /\ p1' = p1 + 1
  /\ lateRows' = IF printed THEN lateRows + 1 ELSE lateRows
  /\ UNCHANGED <<file1, file2, p2, end1, end2, printQueued, printed, inOrder, newEarly>>
  /\ UNCHANGED <<keyVars, lexVars, ctorVars, concVars>>

\* 'data' of the new file's decoder: vennParser(2)(venn)(row)
\* as if the decoder of the new file were given the parser of the old file
Data2_OldFlag ==
  /\ pc = "off"
  /\ p2 < Len(file2)
  /\ venn' = vennParser(1, venn, file2[p2 + 1])
  /\ p2' = p2 + 1
  /\ inOrder' = (inOrder /\ p1 = Len(file1))
  /\ newEarly' = IF \E n \in (p1 + 1)..Len(file1) :
                       stableStringify(file1[n]) = stableStringify(file2[p2 + 1])
                  THEN newEarly \cup {stableStringify(file2[p2 + 1])}
                  ELSE newEarly
  /\ lateRows' = IF printed THEN lateRows + 1 ELSE lateRows
  /\ UNCHANGED <<file1, file2, p1, end1, end2, printQueued, printed>>
  /\ UNCHANGED <<keyVars, lexVars, ctorVars, concVars>>

Data2 ==
  /\ pc = "off"
  /\ p2 < Len(file2)
  /\ venn' = vennParser(2, venn, file2[p2 + 1])
  /\ p2' = p2 + 1
  /\ inOrder' = (inOrder /\ p1 = Len(file1))
  /\ newEarly' = IF \E n \in (p1 + 1)..Len(file1) :
                       stableStringify(file1[n]) = stableStringify(file2[p2 + 1])
                  THEN newEarly \cup {stableStringify(file2[p2 + 1])}
                  ELSE newEarly
  /\ lateRows' = IF printed THEN lateRows + 1 ELSE lateRows
  /\ UNCHANGED <<file1, file2, p1, end1, end2, printQueued, printed>>
  /\ UNCHANGED <<keyVars, lexVars, ctorVars, concVars>>

\* 'end' of the old file's decoder: resolves the promise the print hangs on
End1 ==
  /\ pc = "off"
  /\ p1 = Len(file1) /\ ~end1
  /\ end1' = TRUE
  /\ printQueued' = TRUE
  /\ UNCHANGED <<file1, file2, p1, p2, end2, venn, printed, inOrder, lateRows, newEarly>>
  /\ UNCHANGED <<keyVars, lexVars, ctorVars, concVars>>

\* 'end' of the new file's decoder: resolves a promise nothing waits for
End2 ==
  /\ pc = "off"
  /\ p2 = Len(file2) /\ ~end2
  /\ end2' = TRUE
  /\ UNCHANGED <<file1, file2, p1, p2, end1, venn, printQueued, printed, inOrder, lateRows,
               newEarly>>
  /\ UNCHANGED <<keyVars, lexVars, ctorVars, concVars>>

\* the callback of the last .then: print venn
PrintVenn ==
  /\ pc = "off"
  /\ printQueued
  /\ printQueued' = FALSE
  /\ printed' = TRUE
  /\ UNCHANGED <<file1, file2, p1, p2, end1, end2, venn, inOrder, lateRows, newEarly>>
  /\ UNCHANGED <<keyVars, lexVars, ctorVars, concVars>>

KeyIdle ==
  /\ arr1 = <<>> /\ arr2 = <<>> /\ key = <<>>
  /\ in1 = <<>> /\ in2 = <<>>
  /\ output = EmptyOutput
  /\ i = 0 /\ j = 0
  /\ pc = "off"

\* printVennDiff is called on any two files
VennInit ==
  /\ file1 \in SeqsUpTo(VennRows, MaxRows)
  /\ file2 \in SeqsUpTo(VennRows, MaxRows)
  /\ p1 = 0 /\ p2 = 0
  /\ end1 = FALSE /\ end2 = FALSE
  /\ venn = EmptyVenn
  /\ printQueued = FALSE /\ printed = FALSE
  /\ inOrder = TRUE /\ lateRows = 0 /\ newEarly = {}
  /\ KeyIdle /\ LexIdle /\ CtorIdle /\ ConcIdle

VennNext == Data1 \/ Data2 \/ End1 \/ End2 \/ PrintVenn

VennSpec == VennInit /\ [][VennNext]_vars

(***************************************************************************)
(* Properties of the venn diff.                                            *)
(***************************************************************************)
Count(m, e) == IF e \in DOMAIN m THEN m[e] ELSE 0
Occurrences(e, rows) == Cardinality({n \in 1..Len(rows) : stableStringify(rows[n]) = e})
CanonicalValues ==
  {stableStringify(r) : r \in VennRows}
    \cup DOMAIN venn.removed \cup DOMAIN venn.added \cup DOMAIN venn.intersection
AllProcessed == p1 = Len(file1) /\ p2 = Len(file2)

\* C5: multiset conservation. Once every row of both files has been handled,
\* in whatever order, for every canonical value e: removed[e] + intersection[e]
\* is the number of old rows of value e and added[e] + intersection[e] is the
\* number of new rows of value e (an absent entry counts 0).
C5_Conservation ==
  AllProcessed =>
    \A e \in CanonicalValues :
      /\ Count(venn.removed, e) + Count(venn.intersection, e) = Occurrences(e, file1)
      /\ Count(venn.added, e) + Count(venn.intersection, e) = Occurrences(e, file2)

\* C5 witness: all rows handled, a new row handled before an old one, and the
\* result has an added and an intersection entry.
C5_Witness ==
  /\ AllProcessed /\ ~inOrder
  /\ DOMAIN venn.added # {}
  /\ DOMAIN venn.intersection # {}

\* C6: venn ordering. No 'data' event of the new file is handled while the old
\* file still has rows that were not handled.
C6_OldBeforeNew ==
  (p2 > 0) => (p1 = Len(file1) /\ inOrder)

\* C7: the venn result is printed only after the 'end' events of both decoders,
\* and no row is added to venn after the print.
C7_PrintAfterBothEnds ==
  /\ printed => (end1 /\ end2)
  /\ lateRows = 0

\* C8: venn self-comparison. When the same row sequence is the old and the new
\* input and all old rows are handled before any new row, removed and added
\* are empty and intersection maps each canonical value to its number of
\* occurrences; and old = two copies of a row, new = one copy gives removed
\* count 1, added empty, intersection count 1.
C8_SelfComparison ==
  /\ (AllProcessed /\ inOrder /\ file1 = file2) =>
       /\ DOMAIN venn.removed = {}
       /\ DOMAIN venn.added = {}
       /\ DOMAIN venn.intersection = {stableStringify(file1[n]) : n \in 1..Len(file1)}
       /\ \A e \in DOMAIN venn.intersection : venn.intersection[e] = Occurrences(e, file1)
  /\ (AllProcessed /\ inOrder /\ Len(file1) = 2 /\ file1[1] = file1[2] /\ file2 = <<file1[1]>>) =>
       /\ DOMAIN venn.removed = {stableStringify(file1[1])}
       /\ venn.removed[stableStringify(file1[1])] = 1
       /\ DOMAIN venn.added = {}
       /\ DOMAIN venn.intersection = {stableStringify(file1[1])}
       /\ venn.intersection[stableStringify(file1[1])] = 1

\* C8 witness: a finished in-order self-comparison of two rows that differ in
\* field order only, counted twice under one canonical value.
C8_Witness ==
  /\ AllProcessed /\ inOrder /\ file1 = file2
  /\ Len(file1) = 2 /\ file1[1] # file1[2]
  /\ Cardinality(DOMAIN venn.intersection) = 1

(***************************************************************************)
(* lexCompare called on its own, on any three keys.                        *)
(***************************************************************************)
\* "1", "10", "2"
LexStrings == {<<49>>, <<49, 48>>, <<50>>}
LexKeys == {KeyOf(k) : k \in SeqsUpTo(LexStrings, MaxKeyLen)} \cup {Null}

LexInit ==
  /\ la \in LexKeys /\ lb \in LexKeys /\ lc \in LexKeys
  /\ lres = [ab |-> 0, ba |-> 0, bc |-> 0, ac |-> 0]
  /\ lpc = "call"
  /\ KeyIdle /\ VennIdle /\ CtorIdle /\ ConcIdle

\* lexCompare(la, lb), lexCompare(lb, la), lexCompare(lb, lc), lexCompare(la, lc)
CallLexCompare ==
  /\ lpc = "call"
  /\ lres' = [ab |-> lexCompare(la, lb), ba |-> lexCompare(lb, la),
              bc |-> lexCompare(lb, lc), ac |-> lexCompare(la, lc)]
  /\ lpc' = "done"
  /\ UNCHANGED <<la, lb, lc>>
  /\ UNCHANGED <<keyVars, vennVars, ctorVars, concVars>>

LexNext == CallLexCompare

LexSpec == LexInit /\ [][LexNext]_vars

Sign(n) == IF n < 0 THEN -1 ELSE IF n > 0 THEN 1 ELSE 0
ProperPrefix(a, b) == Len(a) < Len(b) /\ SubSeq(b, 1, Len(a)) = a

Ascending(entries) ==
  \A n \in 1..(Len(entries) - 1) : lexCompare(entries[n].id, entries[n + 1].id) <= 0

\* C12: output order. In every state of the merge walk and in the result, each
\* of added, removed, changed and unchanged is in ascending order of its ids
\* under lexCompare.
C12_OutputOrder ==
  /\ Ascending(output.added)
  /\ Ascending(output.removed)
  /\ Ascending(output.changed)
  /\ Ascending(output.unchanged)

\* C12 witness: a finished diff whose old rows were given in descending key
\* order and are reported removed in ascending order.
C12_Witness ==
  /\ pc = "done"
  /\ Len(in1) = 2 /\ compare(in1[1], in1[2], key) > 0
  /\ Len(output.removed) = 2
  /\ lexCompare(output.removed[1].id, output.removed[2].id) < 0

\* the walk is at an old row and a new row with the same composite key
Paired ==
  /\ pc = "loop"
  /\ i < Len(arr1) /\ j < Len(arr2)
  /\ constructKey(At(arr1, i), key) = constructKey(At(arr2, j), key)

FieldDiffNonEmpty(d) == DOMAIN d.added # {} \/ DOMAIN d.deleted # {} \/ DOMAIN d.updated # {}

\* C13: changed versus unchanged. A step of the walk at a paired old and new
\* row emits exactly one entry, with the new row's key as id: into changed with
\* the field diff as data when the field diff has a non-empty mapping, and
\* otherwise into unchanged with the new row as data; added and removed are
\* left as they are.
C13_ChangedOrUnchanged ==
  [][Paired =>
       LET d == detailedDiff(At(arr1, i), At(arr2, j))
           id2 == constructKey(At(arr2, j), key)
       IN /\ output'.added = output.added
          /\ output'.removed = output.removed
          /\ IF FieldDiffNonEmpty(d)
             THEN /\ output'.changed = Append(output.changed, [id |-> id2, data |-> d])
                  /\ output'.unchanged = output.unchanged
             ELSE /\ output'.unchanged = Append(output.unchanged, [id |-> id2, data |-> At(arr2, j)])
                  /\ output'.changed = output.changed]_vars

\* C13 witness: a finished diff with one changed pair and one unchanged pair
\* whose old and new rows differ in field order only.
C13_Witness ==
  /\ pc = "done" /\ Len(key) > 0
  /\ Len(output.changed) = 1 /\ Len(output.unchanged) = 1
  /\ output.added = <<>> /\ output.removed = <<>>
  /\ \E n \in 1..2 : in1[n] # output.unchanged[1].data
                     /\ stableStringify(in1[n]) = stableStringify(output.unchanged[1].data)

Emitted == Len(output.removed) + Len(output.added) + Len(output.changed) + Len(output.unchanged)

\* C15: the merge walk terminates without error. Every loop iteration advances
\* i or j (or both) by one and emits exactly one entry; the cursors never
\* exceed the array lengths; every iteration reads only rows inside the
\* arrays (the branch taken never indexes an exhausted side); and the
\* walk returns with both cursors exhausted after at most |old| + |new|
\* iterations.
C15_Terminates ==
  /\ [](/\ i <= Len(arr1) /\ j <= Len(arr2)
        /\ Emitted <= Len(in1) + Len(in2)
        /\ (pc = "loop" /\ LoopCond) =>
             /\ (order < 0) => i < Len(arr1)
             /\ (order > 0) => j < Len(arr2)
             /\ (~(order < 0) /\ ~(order > 0)) => (i < Len(arr1) /\ j < Len(arr2))
        /\ (pc = "done") => (i = Len(arr1) /\ j = Len(arr2)))
  /\ [][(pc = "loop") =>
          \/ /\ pc' = "loop"
             /\ (i' = i + 1 \/ j' = j + 1)
             /\ i' \in {i, i + 1} /\ j' \in {j, j + 1}
             /\ Emitted' = Emitted + 1
          \/ /\ pc' = "done"
             /\ ~LoopCond
             /\ Emitted' = Emitted /\ i' = i /\ j' = j]_vars

\* C15 witness: a walk over inputs with a duplicate key on each side has
\* returned after fewer iterations than |old| + |new|.
C15_Witness ==
  /\ pc = "done" /\ Len(key) > 0
  /\ Len(in1) = 2 /\ ~NoDuplicateKey(in1)
  /\ Len(in2) = 2 /\ ~NoDuplicateKey(in2)
  /\ Emitted = 2

CountKey(k, rows) == Cardinality({n \in 1..Len(rows) : constructKey(rows[n], key) = k})
CountId(k, entries) == Cardinality({n \in 1..Len(entries) : entries[n].id = k})

\* C20: duplicate keys are paired by position. In the result, for every
\* composite key k with m old rows and n new rows, changed and unchanged
\* together hold min(m, n) entries of id k, removed holds m - min(m, n) and
\* added holds n - min(m, n); so |removed| + |changed| + |unchanged| = |old|
\* and |added| + |changed| + |unchanged| = |new|.
C20_PositionalPairs ==
  (pc = "done") =>
    /\ \A k \in KeysOf(in1) \cup KeysOf(in2) \cup Ids(output.removed) \cup Ids(output.added)
                \cup Ids(output.changed) \cup Ids(output.unchanged) :
         LET m == CountKey(k, in1)
             n == CountKey(k, in2)
         IN /\ CountId(k, output.changed) + CountId(k, output.unchanged) = Min(m, n)
            /\ CountId(k, output.removed) = m - Min(m, n)
            /\ CountId(k, output.added) = n - Min(m, n)
    /\ Len(output.removed) + Len(output.changed) + Len(output.unchanged) = Len(in1)
    /\ Len(output.added) + Len(output.changed) + Len(output.unchanged) = Len(in2)

\* C20 witness: the same two rows of one key, given in opposite orders on the
\* two sides, come out as two changed pairs.
C20_Witness ==
  /\ pc = "done" /\ Len(key) > 0
  /\ Len(in1) = 2 /\ in2 = <<in1[2], in1[1]>>
  /\ ~NoDuplicateKey(in1)
  /\ Len(output.changed) = 2

(***************************************************************************)
(* Further properties of the venn diff.                                    *)
(***************************************************************************)
\* venn after the parser of file num has handled rows, in order
RECURSIVE Feed(_, _, _)
Feed(num, v, rows) ==
  IF rows = <<>> THEN v ELSE Feed(num, vennParser(num, v, Head(rows)), Tail(rows))

\* the result when every old row is handled before the first new row
VennOf(old, new) == Feed(2, Feed(1, EmptyVenn, old), new)

\* C16: venn counts stay positive. In every state, for any order of old and new
\* rows, every entry of removed, added and intersection is an integer >= 1 (a
\* removed count of 1 that is taken away leaves no entry, not an entry of 0).
C16_PositiveCounts ==
  /\ \A e \in DOMAIN venn.removed : venn.removed[e] \in Nat /\ venn.removed[e] >= 1
  /\ \A e \in DOMAIN venn.added : venn.added[e] \in Nat /\ venn.added[e] >= 1
  /\ \A e \in DOMAIN venn.intersection : venn.intersection[e] \in Nat /\ venn.intersection[e] >= 1

\* C16 witness: a value whose only old row was matched by a new row: it has
\* left removed and is counted in intersection.
C16_Witness ==
  \E e \in DOMAIN venn.intersection :
    /\ Occurrences(e, SubSeq(file1, 1, p1)) = 1
    /\ e \notin DOMAIN venn.removed
    /\ venn.intersection[e] = 1

C19_BagDifference ==
  (AllProcessed /\ inOrder) =>
    /\ DOMAIN venn.removed \cap DOMAIN venn.added = {}
    /\ \A e \in CanonicalValues :
         LET m == Occurrences(e, file1)
             n == Occurrences(e, file2)
         IN /\ Count(venn.intersection, e) = Min(m, n)
            /\ Count(venn.removed, e) = m - Min(m, n)
            /\ Count(venn.added, e) = n - Min(m, n)
            /\ (e \in DOMAIN venn.intersection) <=> (Min(m, n) > 0)
            /\ (e \in DOMAIN venn.removed) <=> (m > n)
            /\ (e \in DOMAIN venn.added) <=> (n > m)

\* C19 witness: an in-order run has ended with a value left in removed, the
\* same value in intersection, and another value in added.
C19_Witness ==
  /\ AllProcessed /\ inOrder
  /\ \E e \in DOMAIN venn.removed : e \in DOMAIN venn.intersection
  /\ DOMAIN venn.added # {}

(***************************************************************************)
(* constructKey called on its own, on any row (or null) and field list.    *)
(***************************************************************************)
CtorFieldNames == {"id", "v", "w"}

CtorInit ==
  /\ crow \in KeyRows \cup {NullRow}
  /\ cfields \in SeqsUpTo(CtorFieldNames, MaxFields)
  /\ crow0 = crow
  /\ cfields0 = cfields
  /\ cres = Null
  /\ cpc = "call"
  /\ KeyIdle /\ VennIdle /\ LexIdle /\ ConcIdle

\* cres = constructKey(crow, cfields): row and fields are only read
CallConstructKey ==
  /\ cpc = "call"
  /\ cres' = constructKey(crow, cfields)
  /\ cpc' = "done"
  /\ UNCHANGED <<crow, cfields, crow0, cfields0>>
  /\ UNCHANGED <<keyVars, vennVars, lexVars, concVars>>

CtorNext == CallConstructKey

CtorSpec == CtorInit /\ [][CtorNext]_vars

\* C18: composite key construction. constructKey returns null exactly when the
\* row is null or undefined; otherwise it returns |fields| strings, the k-th
\* the string form of row[fields[k]] ("undefined" for a missing field), in
\* list order; row and fields are as they were before the call.
C18_ConstructKey ==
  (cpc = "done") =>
    /\ cres.null <=> (crow0 = NullRow)
    /\ (crow0 # NullRow) =>
         /\ Len(cres.k) = Len(cfields0)
         /\ \A n \in 1..Len(cfields0) :
              \/ \E m \in 1..Len(crow0) : /\ crow0[m][1] = cfields0[n]
                                          /\ crow0[m][2].t = "num"
                                          /\ cres.k[n] = Digits(crow0[m][2].n)
              \/ \E m \in 1..Len(crow0) : /\ crow0[m][1] = cfields0[n]
                                          /\ crow0[m][2].t = "str"
                                          /\ cres.k[n] = crow0[m][2].s
              \/ /\ \A m \in 1..Len(crow0) : crow0[m][1] # cfields0[n]
                 /\ cres.k[n] = UndefinedStr
    /\ (crow0 = RowD /\ cfields0 = <<"v", "id">>) => cres.k = << <<49>>, <<49, 48>> >>
    /\ crow = crow0
    /\ cfields = cfields0

\* C18 witness: the key of a row for a field list that names a missing field
\* first and a present field second.
C18_Witness ==
  /\ cpc = "done"
  /\ crow0 = RowE /\ cfields0 = <<"w", "id">>
  /\ cres = KeyOf(<<UndefinedStr, <<49>> >>)

\* ---------------------------------------------------------------------------
\* Two invocations of printVennDiff, or two of keyDiff, whose decoder events
\* interleave.  Each invocation owns the objects its body creates: venn is a
\* let of printVennDiff (lines 61-65), the row array is the [] literal that
\* extractRows hands to readAvroFile (line 248), output is a const of
\* keyDiffHelper (lines 183-188).  index.js has no module-level variable that
\* a parser writes.
\* ---------------------------------------------------------------------------

Invocations == {1, 2}
ConcRows == {RowA, RowC}
ConcKey == <<"id">>

\* the loop of keyDiffHelper from pointers ii, jj with the output built so far
RECURSIVE mergeLoop(_, _, _, _, _, _)
mergeLoop(a1, a2, fields, ii, jj, out) ==
  IF ~(ii < Len(a1) \/ jj < Len(a2)) THEN out
  ELSE LET k1 == IF ii = Len(a1) THEN Null ELSE constructKey(At(a1, ii), fields)
           k2 == IF jj = Len(a2) THEN Null ELSE constructKey(At(a2, jj), fields)
           ord == lexCompare(k1, k2)
           diffObj == detailedDiff(At(a1, ii), At(a2, jj))
       IN IF ord < 0
          THEN mergeLoop(a1, a2, fields, ii + 1, jj,
                 [out EXCEPT !.removed = Append(@, [id |-> k1, data |-> At(a1, ii)])])
          ELSE IF ord > 0
          THEN mergeLoop(a1, a2, fields, ii, jj + 1,
                 [out EXCEPT !.added = Append(@, [id |-> k2, data |-> At(a2, jj)])])
          ELSE IF ~diffIsEmpty(diffObj)
          THEN mergeLoop(a1, a2, fields, ii + 1, jj + 1,
                 [out EXCEPT !.changed = Append(@, [id |-> k2, data |-> diffObj])])
          ELSE mergeLoop(a1, a2, fields, ii + 1, jj + 1,
                 [out EXCEPT !.unchanged = Append(@, [id |-> k2, data |-> At(a2, jj)])])

\* keyDiffHelper has no await in its body: one call runs to completion
keyDiffHelper(a1, a2, fields) ==
  mergeLoop(sort(a1, fields), sort(a2, fields), fields, 0, 0, EmptyOutput)

\* the step-by-step model of keyDiffHelper returns the value of the operator
KeyDiffHelperAgrees == (pc = "done") => output = keyDiffHelper(in1, in2, key)

\* the number of 'data' events of file f that a log holds
Handled(log, f) == Cardinality({n \in DOMAIN log : log[n] = f})

ConcInit ==
  /\ cmode \in {"venn", "key"}
  /\ cfiles \in [Invocations -> [old : SeqsUpTo(ConcRows, MaxConcRows),
                                 new : SeqsUpTo(ConcRows, MaxConcRows)]]
  /\ clog = [k \in Invocations |-> <<>>]
  /\ cvenn = [k \in Invocations |-> EmptyVenn]
  /\ carr = [k \in Invocations |-> [a1 |-> <<>>, a2 |-> <<>>]]
  /\ cout = [k \in Invocations |-> EmptyOutput]
  /\ cdone = [k \in Invocations |-> FALSE]
  /\ KeyIdle /\ VennIdle /\ LexIdle /\ CtorIdle

\* as if venn were one module-level object that every invocation fills
CVennData_SharedVenn(k, f) ==
  /\ cmode = "venn"
  /\ LET rows == IF f = 1 THEN cfiles[k].old ELSE cfiles[k].new
         n == Handled(clog[k], f)
     IN /\ n < Len(rows)
        /\ cvenn' = [c \in Invocations |-> vennParser(f, cvenn[1], rows[n + 1])]
  /\ clog' = [clog EXCEPT ![k] = Append(@, f)]
  /\ UNCHANGED <<cmode, cfiles, carr, cout, cdone>>
  /\ UNCHANGED <<keyVars, vennVars, lexVars, ctorVars>>

\* a 'data' event of the decoder of file f (1 old, 2 new) of invocation k of
\* printVennDiff: vennParser(f, venn) of that invocation handles the row
CVennData(k, f) ==
  /\ cmode = "venn"
  /\ LET rows == IF f = 1 THEN cfiles[k].old ELSE cfiles[k].new
         n == Handled(clog[k], f)
     IN /\ n < Len(rows)
        /\ cvenn' = [cvenn EXCEPT ![k] = vennParser(f, cvenn[k], rows[n + 1])]
  /\ clog' = [clog EXCEPT ![k] = Append(@, f)]
  /\ UNCHANGED <<cmode, cfiles, carr, cout, cdone>>
  /\ UNCHANGED <<keyVars, vennVars, lexVars, ctorVars>>

\* a 'data' event of extractRows(file2) of invocation k of keyDiff
CExtractNew(k) ==
  /\ cmode = "key" /\ ~cdone[k]
  /\ Len(carr[k].a2) < Len(cfiles[k].new)
  /\ carr' = [carr EXCEPT ![k].a2 = Append(@, cfiles[k].new[Len(@) + 1])]
  /\ UNCHANGED <<cmode, cfiles, clog, cvenn, cout, cdone>>
  /\ UNCHANGED <<keyVars, vennVars, lexVars, ctorVars>>

\* a 'data' event of extractRows(file1) of invocation k, which keyDiff starts
\* once extractRows(file2) has resolved
CExtractOld(k) ==
  /\ cmode = "key" /\ ~cdone[k]
  /\ Len(carr[k].a2) = Len(cfiles[k].new)
  /\ Len(carr[k].a1) < Len(cfiles[k].old)
  /\ carr' = [carr EXCEPT ![k].a1 = Append(@, cfiles[k].old[Len(@) + 1])]
  /\ UNCHANGED <<cmode, cfiles, clog, cvenn, cout, cdone>>
  /\ UNCHANGED <<keyVars, vennVars, lexVars, ctorVars>>

\* invocation k of keyDiff calls keyDiffHelper on the two arrays it extracted
CKeyDiffHelper(k) ==
  /\ cmode = "key" /\ ~cdone[k]
  /\ Len(carr[k].a2) = Len(cfiles[k].new)
  /\ Len(carr[k].a1) = Len(cfiles[k].old)
  /\ cout' = [cout EXCEPT ![k] = keyDiffHelper(carr[k].a1, carr[k].a2, ConcKey)]
  /\ carr' = [carr EXCEPT ![k] = [a1 |-> sort(carr[k].a1, ConcKey),
                                  a2 |-> sort(carr[k].a2, ConcKey)]]
  /\ cdone' = [cdone EXCEPT ![k] = TRUE]
  /\ UNCHANGED <<cmode, cfiles, clog, cvenn>>
  /\ UNCHANGED <<keyVars, vennVars, lexVars, ctorVars>>

ConcNext ==
  \/ \E k \in Invocations, f \in {1, 2} : CVennData(k, f)
  \/ \E k \in Invocations : CExtractNew(k)
  \/ \E k \in Invocations : CExtractOld(k)
  \/ \E k \in Invocations : CKeyDiffHelper(k)

ConcSpec == ConcInit /\ [][ConcNext]_vars

\* what one invocation of printVennDiff, run alone on files, accumulates when
\* its own 'data' events arrive in the order of log
RECURSIVE Replay(_, _, _, _, _)
Replay(log, files, q1, q2, v) ==
  IF log = <<>> THEN v
  ELSE IF Head(log) = 1
       THEN Replay(Tail(log), files, q1 + 1, q2, vennParser(1, v, files.old[q1 + 1]))
       ELSE Replay(Tail(log), files, q1, q2 + 1, vennParser(2, v, files.new[q2 + 1]))

\* C14: concurrent invocations are independent.  With the decoder events of
\* two invocations interleaved in any way, the venn of each invocation of
\* printVennDiff is the one that invocation accumulates alone from its own
\* events in their own order, and each invocation of keyDiff extracts its own
\* files' rows and returns what keyDiffHelper returns for its own two files:
\* nothing one invocation writes is read by the other.
C14_Independent ==
  /\ (cmode = "venn") =>
       \A k \in Invocations : cvenn[k] = Replay(clog[k], cfiles[k], 0, 0, EmptyVenn)
  /\ (cmode = "key") =>
       \A k \in Invocations :
         /\ ~cdone[k] =>
              /\ carr[k].a2 = SubSeq(cfiles[k].new, 1, Len(carr[k].a2))
              /\ carr[k].a1 = SubSeq(cfiles[k].old, 1, Len(carr[k].a1))
              /\ cout[k] = EmptyOutput
         /\ cdone[k] => cout[k] = keyDiffHelper(cfiles[k].old, cfiles[k].new, ConcKey)

\* C14 witness: two invocations of printVennDiff on different inputs, each
\* of which has handled a row while the other still has a row to handle, and
\* whose accumulators differ
C14_Witness ==
  /\ cmode = "venn"
  /\ cfiles[1] # cfiles[2]
  /\ \A k \in Invocations :
       /\ Len(clog[k]) > 0
       /\ Len(clog[k]) < Len(cfiles[k].old) + Len(cfiles[k].new)
  /\ cvenn[1] # cvenn[2]
  /\ cvenn[1] # EmptyVenn /\ cvenn[2] # EmptyVenn

\* ---------------------------------------------------------------------------
\* Running conservation of the venn diff
\* ---------------------------------------------------------------------------

\* the rows of a file whose 'data' events have been handled so far
Processed(rows, n) == SubSeq(rows, 1, n)

\* C21: running conservation under interleaving. In every state reached while
\* vennParser handles old and new rows in any interleaving, for every
\* canonical value e, removed[e] + intersection[e] is the number of old rows
\* of value e handled so far and added[e] + intersection[e] is the number of
\* new rows of value e handled so far (an absent entry counts 0). Handling an
\* old row changes only removed; handling a new row changes only removed and
\* intersection, or only added; no other step changes venn.
C21_RunningConservation ==
  /\ [](\A e \in CanonicalValues :
          /\ Count(venn.removed, e) + Count(venn.intersection, e)
               = Occurrences(e, Processed(file1, p1))
          /\ Count(venn.added, e) + Count(venn.intersection, e)
               = Occurrences(e, Processed(file2, p2)))
  /\ [][/\ (p1' = p1 + 1) =>
             /\ venn'.removed # venn.removed
             /\ venn'.added = venn.added
             /\ venn'.intersection = venn.intersection
        /\ (p2' = p2 + 1) =>
             \/ /\ venn'.removed # venn.removed
                /\ venn'.intersection # venn.intersection
                /\ venn'.added = venn.added
             \/ /\ venn'.added # venn.added
                /\ venn'.removed = venn.removed
                /\ venn'.intersection = venn.intersection
        /\ (p1' = p1 /\ p2' = p2) => venn' = venn]_vars

\* C21 witness: rows are still to come from the old file, a new row was
\* handled before an old row, and the rows handled so far have left an entry
\* in added and one in intersection.
C21_Witness ==
  /\ pc = "off"
  /\ p1 > 0 /\ p1 < Len(file1) /\ p2 > 0
  /\ ~inOrder
  /\ DOMAIN venn.added # {}
  /\ DOMAIN venn.intersection # {}

====
